---- MODULE Spec2Model ----
(***************************************************************************)
(* The PDF page-splitting core: the trigger endpoint (POST), the detached  *)
(* background job (processPdfInBackground) and the persisted status file   *)
(* and page artifacts under public/pdf-pages/<fileId>/.                    *)
(*                                                                         *)
(* The server is one Node.js process: synchronous file-system calls that   *)
(* are not separated by an await run atomically, so one action of the      *)
(* model is one await-to-await segment of a handler.                       *)
(***************************************************************************)
EXTENDS Integers, Sequences, FiniteSets, TLC

\* ------------------------------------------------------------------ bounds
\* Largest page count of a document of the store.
MaxPages == 2
\* Number of start requests accepted in one behaviour.
MaxRuns == 2

\* ------------------------------------------------------------------ paths
\* Paths and names are sequences of characters.
Ext == <<".", "p", "d", "f">>

\* PathA and PathB name two files of public/ with the same stem: path.basename
\* gives both the fileId "a".  PathC names no file.
PathA == <<"/", "p", "d", "f", "/", "a", ".", "p", "d", "f">>
PathB == <<"/", "p", "d", "f", "/", "o", "/", "a", ".", "p", "d", "f">>
PathC == <<"/", "p", "d", "f", "/", "b", ".", "p", "d", "f">>
\* The request body carries no pdfPath (undefined, or the empty string).
NoPath == <<>>

\* The paths a file of the store may live at.
StorePaths == {PathA, PathB}
\* The pdfPath values of the trigger requests: every store path, a path that
\* names no file, and the missing path.
RequestPaths == StorePaths \cup {PathC, NoPath}

\* The content of a stored file: a document of 0..MaxPages pages, or bytes
\* PDFDocument.load rejects.
Corrupt == [loadable |-> FALSE, pages |-> 0]
Document(n) == [loadable |-> TRUE, pages |-> n]
Contents == {Document(n) : n \in 0..MaxPages} \cup {Corrupt}

\* s without its trailing '/' characters.
RECURSIVE StripSlashes(_)
StripSlashes(s) ==
    IF s # <<>> /\ s[Len(s)] = "/" THEN StripSlashes(SubSeq(s, 1, Len(s) - 1)) ELSE s

\* The part of s after its last '/'.
RECURSIVE LastSegment(_)
LastSegment(s) ==
    IF s = <<>> THEN <<>>
    ELSE IF s[Len(s)] = "/" THEN <<>>
    ELSE Append(LastSegment(SubSeq(s, 1, Len(s) - 1)), s[Len(s)])

EndsWith(s, suffix) ==
    /\ Len(suffix) <= Len(s)
    /\ SubSeq(s, Len(s) - Len(suffix) + 1, Len(s)) = suffix

\* path.basename(p, ext) of Node.js (posix): the last segment of p, without ext
\* when the segment ends with ext and is longer than it.
Basename(p, ext) ==
    LET name == LastSegment(StripSlashes(p)) IN
    IF p = ext THEN <<>>
    ELSE IF EndsWith(name, ext) /\ Len(name) > Len(ext)
         THEN SubSeq(name, 1, Len(name) - Len(ext))
         ELSE name

\* const fileId = path.basename(pdfPath, '.pdf')
FileIdOf(pdfPath) == Basename(pdfPath, Ext)

FileIds == {FileIdOf(p) : p \in RequestPaths \ {NoPath}}

\* ------------------------------------------------------------------ state
VARIABLES
    docs,        \* the files under public/: path -> content
    dirs,        \* the fileIds whose pdf-pages/<fileId> directory exists
    statusFile,  \* fileId -> the JSON record of pdf-pages/<fileId>/status.json
    pageFiles,   \* <<fileId, n>> -> content of pdf-pages/<fileId>/page-n.pdf
    runs,        \* the calls of processPdfInBackground, in start order
    reply,       \* the HTTP response of the step just taken, when it is recorded
    site         \* the URLs the books and articles refer to, and the cleanup
                 \* request in progress

\* The files under public/ and the background jobs working on them.
store == <<docs, dirs, statusFile, pageFiles, runs>>

vars == <<docs, dirs, statusFile, pageFiles, runs, reply, site>>

\* No response is on record.
NoReply == [op |-> "none"]

\* The state of one cleanupDirectory call: waiting for readdir ("list"),
\* deleting the files of its list ("sweep"), or returned ("done").
NoSweep == [pc |-> "done", files |-> {}]

\* No cleanup request is in progress.
NoCleanup ==
    [phase |-> "idle", usedUrls |-> {}, images |-> NoSweep, pdf |-> NoSweep, served |-> 0]

\* An empty database and no cleanup request.
NoSite == [urls |-> {}, cleanup |-> NoCleanup]

\* A field the JSON record does not have.
Absent == "absent"

\* Faulty variant: the initial record counts the first page as done.
InitialStatusAhead(now) ==
    [status |-> "processing", totalPages |-> 0, processedPages |-> 1,
     startedAt |-> now, updatedAt |-> Absent, completedAt |-> Absent, error |-> Absent]

\* ------------------------------------------------------- the status record
\* The record POST writes before it starts the job.
InitialStatus(now) ==
    [status |-> "processing", totalPages |-> 0, processedPages |-> 0,
     startedAt |-> now, updatedAt |-> Absent, completedAt |-> Absent, error |-> Absent]

\* The record the job writes once the page count is known: a fresh object
\* that takes only startedAt from the file.
SetTotalPages(current, totalPages) ==
    [status |-> "processing", totalPages |-> totalPages, processedPages |-> 0,
     startedAt |-> current.startedAt, updatedAt |-> "set",
     completedAt |-> Absent, error |-> Absent]

\* Faulty variant: the count of pages still to do is recorded.
RecordPageDoneRemaining(current, pageNumber) ==
    [current EXCEPT !.processedPages = current.totalPages - pageNumber,
                    !.updatedAt = "set"]

\* Faulty variant: the 0-based loop index is recorded instead of the page number.
RecordPageDoneIndex(current, pageNumber) ==
    [current EXCEPT !.processedPages = pageNumber - 1, !.updatedAt = "set"]

\* Faulty variant: processedPages counts the progress writes.
RecordPageDoneCounting(current, pageNumber) ==
    [current EXCEPT !.processedPages = @ + 1, !.updatedAt = "set"]

\* Faulty variant: the page about to be processed next is recorded.
RecordPageDoneNext(current, pageNumber) ==
    [current EXCEPT !.processedPages = pageNumber + 1, !.updatedAt = "set"]

\* { ...currentStatus, processedPages: pageNumber, updatedAt }
RecordPageDone(current, pageNumber) ==
    [current EXCEPT !.processedPages = pageNumber, !.updatedAt = "set"]

\* { ...finalStatus, status: 'completed', completedAt, updatedAt }
MarkCompleted(current) ==
    [current EXCEPT !.status = "completed", !.completedAt = "set", !.updatedAt = "set"]

\* Faulty variant: the error message is left out of the failed record.
MarkFailedNoMessage(current, message) ==
    [current EXCEPT !.status = "failed", !.updatedAt = "set"]

\* { ...failedStatus, status: 'failed', error: error.message, updatedAt }
MarkFailed(current, message) ==
    [current EXCEPT !.status = "failed", !.error = message, !.updatedAt = "set"]

\* The message of the error PDFDocument.load throws.
LoadErrorMessage == "Failed to parse PDF document"

\* ------------------------------------------------------------- job runs
\* Faulty variant: the artifact is named after the 0-based loop index.
PagePathByIndex(fileId, i) == <<fileId, i>>

\* pagePath = pagesDir/page-<pageNumber>.pdf, pageNumber = i + 1
PagePath(fileId, i) == <<fileId, i + 1>>

\* The bytes of the one-page document copied from page index i of source.
PageBytes(source, i) == [source |-> source, page |-> i + 1]

NewRun(pdfPath, overlapped) ==
    [path |-> pdfPath, fileId |-> FileIdOf(pdfPath), pc |-> "load", i |-> 0,
     totalPages |-> 0, written |-> {}, errored |-> {}, loadFailed |-> FALSE,
     overlapped |-> overlapped, fate |-> "none"]

\* The runs of fileId still in flight.
InFlight(fileId) ==
    {r \in 1..Len(runs) : runs[r].fileId = fileId /\ runs[r].pc # "done"}

Put(f, k, v) == [x \in DOMAIN f \cup {k} |-> IF x = k THEN v ELSE f[x]]

Init ==
    /\ docs \in [StorePaths -> Contents]
    /\ dirs = {}
    /\ statusFile = <<>>
    /\ pageFiles = <<>>
    /\ runs = <<>>
    /\ reply = NoReply
    /\ site = NoSite

\* POST without a pdfPath: 400.
PostMissingPath(pdfPath) ==
    /\ pdfPath = NoPath
    /\ UNCHANGED store

\* Faulty variant: the artifact directory is created before the file is
\* looked up.
PostNotFoundAfterMkdir(pdfPath) ==
    /\ pdfPath # NoPath
    /\ pdfPath \notin DOMAIN docs
    /\ dirs' = dirs \cup {FileIdOf(pdfPath)}
    /\ UNCHANGED <<docs, statusFile, pageFiles, runs>>

\* POST with a pdfPath that names no file under public/: 404.
PostNotFound(pdfPath) ==
    /\ pdfPath # NoPath
    /\ pdfPath \notin DOMAIN docs
    /\ UNCHANGED store

\* Faulty variant: a start request empties the pages directory first.
PostStartClearing(pdfPath) ==
    /\ pdfPath # NoPath
    /\ pdfPath \in DOMAIN docs
    /\ Len(runs) < MaxRuns
    /\ LET fileId == FileIdOf(pdfPath)
           busy == InFlight(fileId)
           kept == {at \in DOMAIN pageFiles : at[1] # fileId}
       IN  /\ dirs' = dirs \cup {fileId}
           /\ pageFiles' = [at \in kept |-> pageFiles[at]]
           /\ statusFile' = Put(statusFile, fileId, InitialStatus(Len(runs) + 1))
           /\ runs' = Append([r \in 1..Len(runs) |->
                                IF r \in busy THEN [runs[r] EXCEPT !.overlapped = TRUE]
                                ELSE runs[r]],
                             NewRun(pdfPath, busy # {}))
    /\ UNCHANGED docs

\* POST for an existing file: creates the pages directory, writes the initial
\* status record and calls processPdfInBackground, which reads the file and
\* suspends at its first await (PDFDocument.load).
PostStart(pdfPath) ==
    /\ pdfPath # NoPath
    /\ pdfPath \in DOMAIN docs
    /\ Len(runs) < MaxRuns
    /\ LET fileId == FileIdOf(pdfPath)
           busy == InFlight(fileId)
       IN  /\ dirs' = dirs \cup {fileId}
           /\ statusFile' = Put(statusFile, fileId, InitialStatus(Len(runs) + 1))
           /\ runs' = Append([r \in 1..Len(runs) |->
                                IF r \in busy THEN [runs[r] EXCEPT !.overlapped = TRUE]
                                ELSE runs[r]],
                             NewRun(pdfPath, busy # {}))
    /\ UNCHANGED <<docs, pageFiles>>

\* Faulty variant: the completed write after the loop is left out.
FinishWithoutWrite(record) == record

\* The end of the page loop: the record after markCompleted.
Finish(record) == MarkCompleted(record)

\* PDFDocument.load settles.  On a rejection the catch block marks the record
\* failed.  Otherwise the job writes totalPages and enters the page loop; a
\* document without pages falls through the loop to the completed write.
LoadStep(r) ==
    /\ r \in 1..Len(runs)
    /\ runs[r].pc = "load"
    /\ LET run == runs[r]
           fileId == run.fileId
           content == docs[run.path]
       IN  IF ~content.loadable
           THEN /\ statusFile' = [statusFile EXCEPT
                       ![fileId] = MarkFailed(@, LoadErrorMessage)]
                /\ runs' = [runs EXCEPT ![r].pc = "done", ![r].loadFailed = TRUE]
           ELSE LET totalPages == content.pages
                    withTotal == SetTotalPages(statusFile[fileId], totalPages)
                IN  IF ~(0 < totalPages)
                    THEN /\ statusFile' = [statusFile EXCEPT ![fileId] = Finish(withTotal)]
                         /\ runs' = [runs EXCEPT ![r].pc = "done",
                                                 ![r].totalPages = totalPages]
                    ELSE /\ statusFile' = [statusFile EXCEPT ![fileId] = withTotal]
                         /\ runs' = [runs EXCEPT ![r].pc = "page",
                                                 ![r].totalPages = totalPages]
    /\ UNCHANGED <<docs, dirs, pageFiles>>

\* Faulty variant: the loop has no try/catch of its own, so a page error
\* reaches the catch block of the job and ends it.
PageStepAborting(r, outcome) ==
    /\ r \in 1..Len(runs)
    /\ runs[r].pc = "page"
    /\ LET run == runs[r]
           fileId == run.fileId
           pageNumber == run.i + 1
           isLast == ~(run.i + 1 < run.totalPages)
           progressed == IF outcome = "ok"
                         THEN RecordPageDone(statusFile[fileId], pageNumber)
                         ELSE MarkFailed(statusFile[fileId], "page error")
           ended == isLast \/ outcome # "ok"
       IN  /\ pageFiles' = IF outcome = "ok"
                           THEN Put(pageFiles, PagePath(fileId, run.i),
                                    PageBytes(run.path, run.i))
                           ELSE pageFiles
           /\ statusFile' = [statusFile EXCEPT
                  ![fileId] = IF isLast /\ outcome = "ok"
                              THEN MarkCompleted(progressed) ELSE progressed]
           /\ runs' = [runs EXCEPT
                  ![r].i = run.i + 1,
                  ![r].pc = IF ended THEN "done" ELSE "page",
                  ![r].written = IF outcome = "ok" THEN @ \cup {pageNumber} ELSE @,
                  ![r].errored = IF outcome = "ok" THEN @ ELSE @ \cup {pageNumber}]
    /\ UNCHANGED <<docs, dirs>>

\* The outcomes of one iteration of the page loop: the copy and the artifact
\* write succeed, the copy throws, or the artifact write throws.
PageOutcomes == {"ok", "extractError", "writeError"}

\* One iteration of the page loop, up to the next await: on success the
\* artifact is written and the progress recorded; an error is logged.  After
\* the last page the completed write follows in the same segment.
PageStep(r, outcome) ==
    /\ r \in 1..Len(runs)
    /\ runs[r].pc = "page"
    /\ LET run == runs[r]
           fileId == run.fileId
           pageNumber == run.i + 1
           isLast == ~(run.i + 1 < run.totalPages)
           progressed == IF outcome = "ok"
                         THEN RecordPageDone(statusFile[fileId], pageNumber)
                         ELSE statusFile[fileId]
       IN  /\ pageFiles' = IF outcome = "ok"
                           THEN Put(pageFiles, PagePath(fileId, run.i),
                                    PageBytes(run.path, run.i))
                           ELSE pageFiles
           /\ statusFile' = [statusFile EXCEPT
                  ![fileId] = IF isLast THEN Finish(progressed) ELSE progressed]
           /\ runs' = [runs EXCEPT
                  ![r].i = run.i + 1,
                  ![r].pc = IF isLast THEN "done" ELSE "page",
                  ![r].written = IF outcome = "ok" THEN @ \cup {pageNumber} ELSE @,
                  ![r].errored = IF outcome = "ok" THEN @ ELSE @ \cup {pageNumber}]
    /\ UNCHANGED <<docs, dirs>>

\* The behaviours of the trigger endpoint and the background jobs; the HTTP
\* responses are not recorded.
Next ==
    \/ \E pdfPath \in RequestPaths : PostMissingPath(pdfPath) /\ UNCHANGED <<reply, site>>
    \/ \E pdfPath \in RequestPaths : PostNotFound(pdfPath) /\ UNCHANGED <<reply, site>>
    \/ \E pdfPath \in RequestPaths : PostStart(pdfPath) /\ UNCHANGED <<reply, site>>
    \/ \E r \in 1..MaxRuns : LoadStep(r) /\ UNCHANGED <<reply, site>>
    \/ \E r \in 1..MaxRuns, outcome \in PageOutcomes :
           PageStep(r, outcome) /\ UNCHANGED <<reply, site>>

Spec == Init /\ [][Next]_vars

\* A segment of some background job.  The event loop resumes every settled
\* promise, so a job that can take a step eventually takes one.
JobStep ==
    /\ \E r \in 1..MaxRuns :
           LoadStep(r) \/ \E outcome \in PageOutcomes : PageStep(r, outcome)
    /\ UNCHANGED <<reply, site>>

\* The fair behaviours are followed from a store that holds a document of
\* MaxPages pages and, under the same fileId, a corrupt file or an empty
\* document.
FairInit ==
    /\ Init
    /\ docs[PathA] = Document(MaxPages)
    /\ docs[PathB] \in {Corrupt, Document(0)}

FairSpec == FairInit /\ [][Next]_vars /\ WF_vars(JobStep)

\* ------------------------------------------ failing status-file writes
\* The writes of status.json in a job: the total-pages update (line 71), the
\* progress update (line 96), the completed update (line 110) and the failed
\* update of the catch block (line 124).
WriteKinds == {"total", "progress", "completed", "failed"}

\* error.message of a failed fs.writeFileSync.
WriteErrorMessage == "EIO: i/o error, write"

\* Faulty variant: the catch block gives up without touching the record.
CatchBlockSilent(record, message, broken) == record

\* The catch block of processPdfInBackground: the record after its attempt to
\* mark the job failed; the attempt itself is inside a try/catch.
CatchBlock(record, message, broken) ==
    IF "failed" \in broken THEN record ELSE MarkFailed(record, message)

\* What became of a run that ended in the catch block.
CaughtFate(broken) == IF "failed" \in broken THEN "lost" ELSE "aborted"

\* The segment of LoadStep when the writes in broken throw.  A throw of the
\* total-pages write or of the completed write reaches the catch block.
LoadSegment(r, broken) ==
    /\ r \in 1..Len(runs)
    /\ runs[r].pc = "load"
    /\ LET run == runs[r]
           fileId == run.fileId
           content == docs[run.path]
           current == statusFile[fileId]
       IN  IF ~content.loadable
           THEN /\ statusFile' = [statusFile EXCEPT
                       ![fileId] = CatchBlock(current, LoadErrorMessage, broken)]
                /\ runs' = [runs EXCEPT ![r].pc = "done", ![r].loadFailed = TRUE,
                                        ![r].fate = CaughtFate(broken)]
           ELSE LET totalPages == content.pages
                    withTotal == SetTotalPages(current, totalPages)
                IN  IF "total" \in broken
                    THEN /\ statusFile' = [statusFile EXCEPT
                                ![fileId] = CatchBlock(current, WriteErrorMessage, broken)]
                         /\ runs' = [runs EXCEPT ![r].pc = "done",
                                                 ![r].totalPages = totalPages,
                                                 ![r].fate = CaughtFate(broken)]
                    ELSE IF 0 < totalPages
                    THEN /\ statusFile' = [statusFile EXCEPT ![fileId] = withTotal]
                         /\ runs' = [runs EXCEPT ![r].pc = "page",
                                                 ![r].totalPages = totalPages]
                    ELSE IF "completed" \in broken
                    THEN /\ statusFile' = [statusFile EXCEPT
                                ![fileId] = CatchBlock(withTotal, WriteErrorMessage, broken)]
                         /\ runs' = [runs EXCEPT ![r].pc = "done",
                                                 ![r].totalPages = totalPages,
                                                 ![r].fate = CaughtFate(broken)]
                    ELSE /\ statusFile' = [statusFile EXCEPT ![fileId] = Finish(withTotal)]
                         /\ runs' = [runs EXCEPT ![r].pc = "done",
                                                 ![r].totalPages = totalPages]
    /\ UNCHANGED <<docs, dirs, pageFiles>>

\* The segment of PageStep when the writes in broken throw.  A throw of the
\* progress write is caught inside the loop, after the artifact is written;
\* a throw of the completed write reaches the catch block.
PageSegment(r, outcome, broken) ==
    /\ r \in 1..Len(runs)
    /\ runs[r].pc = "page"
    /\ LET run == runs[r]
           fileId == run.fileId
           pageNumber == run.i + 1
           isLast == ~(run.i + 1 < run.totalPages)
           progressed == IF outcome = "ok" /\ "progress" \notin broken
                         THEN RecordPageDone(statusFile[fileId], pageNumber)
                         ELSE statusFile[fileId]
           caught == isLast /\ "completed" \in broken
       IN  /\ pageFiles' = IF outcome = "ok"
                           THEN Put(pageFiles, PagePath(fileId, run.i),
                                    PageBytes(run.path, run.i))
                           ELSE pageFiles
           /\ statusFile' = [statusFile EXCEPT
                  ![fileId] = IF caught
                              THEN CatchBlock(progressed, WriteErrorMessage, broken)
                              ELSE IF isLast THEN Finish(progressed) ELSE progressed]
           /\ runs' = [runs EXCEPT
                  ![r].i = run.i + 1,
                  ![r].pc = IF isLast THEN "done" ELSE "page",
                  ![r].written = IF outcome = "ok" THEN @ \cup {pageNumber} ELSE @,
                  ![r].errored = IF outcome = "ok" THEN @ ELSE @ \cup {pageNumber},
                  ![r].fate = IF caught THEN CaughtFate(broken) ELSE @]
    /\ UNCHANGED <<docs, dirs>>

\* POST for an existing file when the write of the initial record throws: the
\* directory exists, the handler answers 500 and no job is started.
PostStartWriteFails(pdfPath) ==
    /\ pdfPath # NoPath
    /\ pdfPath \in DOMAIN docs
    /\ dirs' = dirs \cup {FileIdOf(pdfPath)}
    /\ UNCHANGED <<docs, statusFile, pageFiles, runs>>

\* The Node.js process dies: every job in flight is gone, the files stay.
Crash ==
    /\ \E r \in 1..Len(runs) : runs[r].pc # "done"
    /\ runs' = [r \in 1..Len(runs) |->
                   IF runs[r].pc # "done"
                   THEN [runs[r] EXCEPT !.pc = "done", !.fate = "crashed"]
                   ELSE runs[r]]
    /\ UNCHANGED <<docs, dirs, statusFile, pageFiles>>

\* Number of start requests accepted in a behaviour with write failures.
MaxFaultRuns == 1

\* The behaviours of the trigger endpoint and the background jobs when
\* status-file writes may throw and the process may die.
FaultNext ==
    \/ \E pdfPath \in RequestPaths : PostMissingPath(pdfPath) /\ UNCHANGED <<reply, site>>
    \/ \E pdfPath \in RequestPaths : PostNotFound(pdfPath) /\ UNCHANGED <<reply, site>>
    \/ \E pdfPath \in RequestPaths :
           /\ Len(runs) < MaxFaultRuns
           /\ PostStart(pdfPath)
           /\ UNCHANGED <<reply, site>>
    \/ \E pdfPath \in RequestPaths : PostStartWriteFails(pdfPath) /\ UNCHANGED <<reply, site>>
    \/ \E r \in 1..MaxRuns, broken \in SUBSET WriteKinds :
           LoadSegment(r, broken) /\ UNCHANGED <<reply, site>>
    \/ \E r \in 1..MaxRuns, outcome \in PageOutcomes, broken \in SUBSET WriteKinds :
           PageSegment(r, outcome, broken) /\ UNCHANGED <<reply, site>>
    \/ Crash /\ UNCHANGED <<reply, site>>

\* The store of these behaviours: a document of MaxPages pages and, under
\* the same fileId, a corrupt file, an empty document or a single page.
FaultInit ==
    /\ Init
    /\ docs[PathA] = Document(MaxPages)
    /\ docs[PathB] \in {Corrupt, Document(0), Document(1)}

FaultSpec == FaultInit /\ [][FaultNext]_vars

\* ------------------------------------------------------ the status query
\* The fileId values of the status queries; NoPath: no fileId parameter.
QueryIds == FileIds \cup {NoPath}

\* Faulty variant: a failed job is reported as not found.
StatusReplyHidingFailed(fileId) ==
    IF fileId = NoPath
    THEN [op |-> "status", fileId |-> fileId, code |-> 400, found |-> FALSE,
          body |-> <<>>]
    ELSE IF fileId \notin DOMAIN statusFile \/ statusFile[fileId].status = "failed"
    THEN [op |-> "status", fileId |-> fileId, code |-> 200, found |-> FALSE,
          body |-> <<>>]
    ELSE [op |-> "status", fileId |-> fileId, code |-> 200, found |-> TRUE,
          body |-> <<statusFile[fileId]>>]

\* GET ?fileId=: 400 without a fileId, the not_found answer when status.json
\* does not exist, the parsed record otherwise.
StatusReply(fileId) ==
    IF fileId = NoPath
    THEN [op |-> "status", fileId |-> fileId, code |-> 400, found |-> FALSE,
          body |-> <<>>]
    ELSE IF fileId \notin DOMAIN statusFile
    THEN [op |-> "status", fileId |-> fileId, code |-> 200, found |-> FALSE,
          body |-> <<>>]
    ELSE [op |-> "status", fileId |-> fileId, code |-> 200, found |-> TRUE,
          body |-> <<statusFile[fileId]>>]

StatusGet(fileId) ==
    /\ reply' = StatusReply(fileId)
    /\ UNCHANGED store

\* ------------------------------------------------------ the page resolver
\* pdfUrl.startsWith('/pdf/')
LocalPrefix == <<"/", "p", "d", "f", "/">>
StartsWith(s, prefix) ==
    Len(prefix) <= Len(s) /\ SubSeq(s, 1, Len(prefix)) = prefix

\* A URL that is not under /pdf/.
ExternalUrl == <<"h", "t", "t", "p", ":", "/", "/", "x">>

\* s.replace(sub, ''): s without the first occurrence of sub.
RECURSIVE RemoveFirst(_, _)
RemoveFirst(s, sub) ==
    IF Len(s) < Len(sub) THEN s
    ELSE IF SubSeq(s, 1, Len(sub)) = sub THEN SubSeq(s, Len(sub) + 1, Len(s))
    ELSE <<s[1]>> \o RemoveFirst(Tail(s), sub)

\* Faulty variant: every occurrence of '.pdf' is removed.
RECURSIVE ResolverFileIdAll(_)
ResolverFileIdAll(filename) ==
    IF RemoveFirst(filename, Ext) = filename THEN filename
    ELSE ResolverFileIdAll(RemoveFirst(filename, Ext))

\* const filename = pdfUrl.split('/').pop() || ''
\* const fileId = filename.replace('.pdf', '')
ResolverFileId(pdfUrl) == RemoveFirst(LastSegment(pdfUrl), Ext)

\* The page numbers a request may carry.
PageInputs == 0..(MaxPages + 1)

\* The bodies of the fetch requests: a range (fromPage and toPage given), one
\* page (pageNumber given) or neither.  The page numbers are read only once
\* the document is found, so they vary for the stored documents only.
FetchRequests ==
    {[pdfUrl |-> u, kind |-> "range", pageNumber |-> 0, fromPage |-> f, toPage |-> t] :
        u \in StorePaths, f \in PageInputs, t \in PageInputs}
    \cup
    {[pdfUrl |-> u, kind |-> "page", pageNumber |-> p, fromPage |-> 0, toPage |-> 0] :
        u \in StorePaths, p \in PageInputs}
    \cup
    {[pdfUrl |-> u, kind |-> "none", pageNumber |-> 0, fromPage |-> 0, toPage |-> 0] :
        u \in StorePaths}
    \cup
    {[pdfUrl |-> u, kind |-> k, pageNumber |-> 1, fromPage |-> 1, toPage |-> 1] :
        u \in {NoPath, PathC, ExternalUrl}, k \in {"range", "page", "none"}}

NoBytes == [source |-> <<>>, page |-> 0]

\* `/pdf-pages/${fileId}/page-${page}.pdf`
PreProcessedPageUrl(fileId, page) ==
    [kind |-> "artifact", at |-> <<fileId, page>>, bytes |-> NoBytes]

\* `data:application/pdf;base64,${base64}`
DataUrl(bytes) == [kind |-> "data", at |-> <<>>, bytes |-> bytes]

\* Faulty variant: the check fromPage > toPage is missing.
InvalidRangeUnordered(fromPage, toPage, totalPages) ==
    fromPage < 1 \/ toPage < 1 \/ fromPage > totalPages \/ toPage > totalPages

InvalidRange(fromPage, toPage, totalPages) ==
    \/ fromPage < 1 \/ toPage < 1
    \/ fromPage > totalPages \/ toPage > totalPages
    \/ fromPage > toPage

InvalidPage(pageNumber, totalPages) == pageNumber < 1 \/ pageNumber > totalPages

\* fs.existsSync(preProcessedPath)
\* Faulty variant: the artifact is looked up under the 0-based page index.
PreProcessedByIndex(fileId, page) == <<fileId, page - 1>> \in DOMAIN pageFiles

\* Faulty variant: artifacts are not trusted while a job of the fileId runs.
PreProcessedWhenIdle(fileId, page) ==
    <<fileId, page>> \in DOMAIN pageFiles /\ InFlight(fileId) = {}

PreProcessed(fileId, page) == <<fileId, page>> \in DOMAIN pageFiles

\* pages.sort((a, b) => a.pageNumber - b.pageNumber)
RECURSIVE InsertByPage(_, _)
InsertByPage(sorted, e) ==
    IF sorted = <<>> THEN <<e>>
    ELSE IF e.pageNumber < sorted[1].pageNumber THEN <<e>> \o sorted
    ELSE <<sorted[1]>> \o InsertByPage(Tail(sorted), e)

\* Faulty variant: the entries are left in the order they were pushed.
SortByPageSkipped(pages) == pages

RECURSIVE SortByPage(_)
SortByPage(pages) ==
    IF pages = <<>> THEN <<>>
    ELSE InsertByPage(SortByPage(SubSeq(pages, 1, Len(pages) - 1)), pages[Len(pages)])

\* The entries of a range answer: the pre-processed pages are pushed first,
\* then the pages extracted on demand, then the list is sorted.
RangePages(pdfUrl, fromPage, toPage) ==
    LET fileId == ResolverFileId(pdfUrl)
        wanted == [k \in 1..(toPage - fromPage + 1) |-> fromPage + k - 1]
        hits == SelectSeq(wanted, LAMBDA page : PreProcessed(fileId, page))
        pagesToExtract == SelectSeq(wanted, LAMBDA page : ~PreProcessed(fileId, page))
        pushed ==
            [k \in 1..Len(hits) |->
                [pageNumber |-> hits[k],
                 url |-> PreProcessedPageUrl(fileId, hits[k]),
                 isPreProcessed |-> TRUE]]
            \o
            [k \in 1..Len(pagesToExtract) |->
                [pageNumber |-> pagesToExtract[k],
                 url |-> DataUrl(PageBytes(pdfUrl, pagesToExtract[k] - 1)),
                 isPreProcessed |-> FALSE]]
    IN  SortByPage(pushed)

FetchAnswer(request, code, kind, pages, url, body) ==
    [op |-> "fetch", request |-> request, code |-> code, kind |-> kind,
     pages |-> pages, url |-> url, body |-> body]

NoUrl == [kind |-> "none", at |-> <<>>, bytes |-> NoBytes]

\* The answer of the fetch endpoint (POST) to a request, in the current store.
FetchReply(request) ==
    LET pdfUrl == request.pdfUrl IN
    IF pdfUrl = NoPath \/ ~StartsWith(pdfUrl, LocalPrefix)
    THEN FetchAnswer(request, 200, "external", <<>>, NoUrl, NoBytes)
    ELSE IF pdfUrl \notin DOMAIN docs
    THEN FetchAnswer(request, 404, "error", <<>>, NoUrl, NoBytes)
    ELSE IF ~docs[pdfUrl].loadable
    THEN FetchAnswer(request, 500, "error", <<>>, NoUrl, NoBytes)
    ELSE LET totalPages == docs[pdfUrl].pages
             fileId == ResolverFileId(pdfUrl)
         IN  IF request.kind = "range"
             THEN IF InvalidRange(request.fromPage, request.toPage, totalPages)
                  THEN FetchAnswer(request, 400, "error", <<>>, NoUrl, NoBytes)
                  ELSE FetchAnswer(request, 200, "pages",
                                   RangePages(pdfUrl, request.fromPage, request.toPage),
                                   NoUrl, NoBytes)
             ELSE IF request.kind = "none"
             THEN FetchAnswer(request, 400, "error", <<>>, NoUrl, NoBytes)
             ELSE IF InvalidPage(request.pageNumber, totalPages)
             THEN FetchAnswer(request, 400, "error", <<>>, NoUrl, NoBytes)
             ELSE IF PreProcessed(fileId, request.pageNumber)
             THEN FetchAnswer(request, 200, "reference", <<>>,
                              PreProcessedPageUrl(fileId, request.pageNumber), NoBytes)
             ELSE FetchAnswer(request, 200, "bytes", <<>>, NoUrl,
                              PageBytes(pdfUrl, request.pageNumber - 1))

\* Faulty variant: a page extracted on demand is saved as an artifact.
FetchPostCaching(request) ==
    /\ reply' = FetchReply(request)
    /\ pageFiles' = IF reply'.kind = "bytes"
                    THEN Put(pageFiles,
                             <<ResolverFileId(request.pdfUrl), request.pageNumber>>,
                             reply'.body)
                    ELSE pageFiles
    /\ UNCHANGED <<docs, dirs, statusFile, runs>>

\* One fetch request.  The handler reads the source file and the artifact
\* directory and writes nothing.
FetchPost(request) ==
    /\ reply' = FetchReply(request)
    /\ UNCHANGED store

\* The answer of the total-pages endpoint (GET ?pdfUrl=).
TotalPagesReply(pdfUrl) ==
    LET answer(code, known, totalPages, isExternal) ==
            [op |-> "total", pdfUrl |-> pdfUrl, code |-> code, known |-> known,
             totalPages |-> totalPages, isExternal |-> isExternal]
    IN  IF pdfUrl = NoPath THEN answer(400, FALSE, 0, FALSE)
        ELSE IF ~StartsWith(pdfUrl, LocalPrefix) THEN answer(200, FALSE, 0, TRUE)
        ELSE IF pdfUrl \notin DOMAIN docs THEN answer(404, FALSE, 0, FALSE)
        ELSE IF ~docs[pdfUrl].loadable THEN answer(500, FALSE, 0, FALSE)
        ELSE answer(200, TRUE, docs[pdfUrl].pages, FALSE)

\* One total-pages query.
TotalPagesGet(pdfUrl) ==
    /\ reply' = TotalPagesReply(pdfUrl)
    /\ UNCHANGED store

\* ------------------------------------------------- the recorded behaviours
\* Number of start requests accepted in a behaviour that records responses.
MaxApiRuns == 1

\* No background job is in flight.
Idle == \A r \in 1..Len(runs) : runs[r].pc = "done"

TriggerReply(pdfPath, code) ==
    [op |-> "trigger", pdfPath |-> pdfPath, code |-> code]

\* The behaviours of all three endpoints and the background jobs, with the
\* HTTP response of each request on record until the next step.  A start is
\* requested here only while no job is in flight.
ApiNext ==
    \/ \E pdfPath \in RequestPaths :
           /\ PostMissingPath(pdfPath)
           /\ reply' = TriggerReply(pdfPath, 400)
           /\ UNCHANGED site
    \/ \E pdfPath \in RequestPaths :
           /\ PostNotFound(pdfPath)
           /\ reply' = TriggerReply(pdfPath, 404)
           /\ UNCHANGED site
    \/ \E pdfPath \in RequestPaths :
           /\ Len(runs) < MaxApiRuns
           /\ Idle
           /\ PostStart(pdfPath)
           /\ reply' = TriggerReply(pdfPath, 200)
           /\ UNCHANGED site
    \/ \E r \in 1..MaxRuns : LoadStep(r) /\ reply' = NoReply /\ UNCHANGED site
    \/ \E r \in 1..MaxRuns, outcome \in PageOutcomes :
           PageStep(r, outcome) /\ reply' = NoReply /\ UNCHANGED site
    \/ \E fileId \in QueryIds : StatusGet(fileId) /\ UNCHANGED site
    \/ \E request \in FetchRequests : FetchPost(request) /\ UNCHANGED site
    \/ \E pdfUrl \in RequestPaths \cup {ExternalUrl} :
           TotalPagesGet(pdfUrl) /\ UNCHANGED site

\* The documents of the recorded behaviours: one of full length, and one
\* that shares its identifier and is either unreadable or a single page.
ApiInit ==
    /\ Init
    /\ docs[PathA] = Document(MaxPages)
    /\ docs[PathB] \in {Corrupt, Document(1)}

ApiSpec == ApiInit /\ [][ApiNext]_vars

\* ------------------------------------------------ the two identifier rules
\* Document paths /pdf/<stem>.pdf, the stem made of at most MaxStem pieces.
MaxStem == 3
StemPieces == {<<"a">>, <<"b">>, <<".">>, <<"/">>, Ext}

RECURSIVE Stems(_)
Stems(n) ==
    IF n = 0 THEN {<<>>}
    ELSE Stems(n - 1) \cup {stem \o piece : stem \in Stems(n - 1), piece \in StemPieces}

DocumentPaths == {LocalPrefix \o stem \o Ext : stem \in Stems(MaxStem)}

\* The fileId the trigger endpoint and the fetch endpoint derive for pdfPath.
Derive(pdfPath) ==
    /\ reply' = [op |-> "derive", pdfPath |-> pdfPath,
                 runner |-> FileIdOf(pdfPath), resolver |-> ResolverFileId(pdfPath)]
    /\ UNCHANGED store

IdInit ==
    /\ Init
    /\ docs = [pdfPath \in StorePaths |-> Document(1)]

IdNext == \E pdfPath \in DocumentPaths : Derive(pdfPath) /\ UNCHANGED site

IdSpec == IdInit /\ [][IdNext]_vars

\* ------------------------------------------------- the cleanup endpoint
ImagesPrefix == <<"/", "i", "m", "a", "g", "e", "s", "/">>

\* A file of public/images.
ImageC == ImagesPrefix \o <<"c">>

\* The files a book (coverUrl, pdfUrl) or an article (imageUrl) may refer to.
FileUrls == StorePaths \cup {ImageC}

\* The directories the cleanup goes through, with their URL prefixes.
CleanupDirs == {"images", "pdf"}
DirPrefix(dir) == IF dir = "images" THEN ImagesPrefix ELSE LocalPrefix

\* The part of s before its first '/'.
RECURSIVE FirstSegment(_)
FirstSegment(s) ==
    IF s = <<>> \/ s[1] = "/" THEN <<>> ELSE <<s[1]>> \o FirstSegment(Tail(s))

\* `/${dirPath}/${file}` for every entry fs.readdir returns: the files and
\* the subdirectories directly under the directory.
Listing(dir) ==
    {DirPrefix(dir) \o FirstSegment(SubSeq(path, Len(DirPrefix(dir)) + 1, Len(path))) :
        path \in {q \in DOMAIN docs : StartsWith(q, DirPrefix(dir))}}

\* Number of authorized cleanup requests served in a behaviour.
MaxCleanups == 1

\* A book or an article that refers to url is stored.
AddReference(url) ==
    /\ site' = [site EXCEPT !.urls = @ \cup {url}]
    /\ reply' = NoReply
    /\ UNCHANGED store

\* POST or GET without the API key: 401.
CleanupUnauthorized(op) ==
    /\ reply' = [op |-> op, code |-> 401, unused |-> {}]
    /\ UNCHANGED <<store, site>>

\* Authorized POST: the handler asks for the books and the articles.
CleanupPost ==
    /\ site.cleanup.phase = "idle"
    /\ site.cleanup.served < MaxCleanups
    /\ site' = [site EXCEPT !.cleanup.phase = "query"]
    /\ reply' = NoReply
    /\ UNCHANGED store

\* getBooks and getArticles have answered: usedUrls is collected and the two
\* cleanupDirectory calls are started; each waits for its readdir.
CleanupQuery ==
    /\ site.cleanup.phase = "query"
    /\ site' = [site EXCEPT !.cleanup.phase = "sweep",
                            !.cleanup.usedUrls = site.urls,
                            !.cleanup.images = [pc |-> "list", files |-> {}],
                            !.cleanup.pdf = [pc |-> "list", files |-> {}]]
    /\ reply' = NoReply
    /\ UNCHANGED store

\* The entries of a listing the loop does not skip.
UnusedOf(listing, usedUrls) == listing \ usedUrls

\* A cleanupDirectory call with files left to delete; it returns when none
\* is left.
SweepAfter(files) ==
    [pc |-> IF files = {} THEN "done" ELSE "sweep", files |-> files]

\* readdir of a directory has answered: the loop skips the used entries and
\* calls unlink for the first unused one.
CleanupReaddir(dir) ==
    /\ site.cleanup.phase = "sweep"
    /\ site.cleanup[dir].pc = "list"
    /\ site' = [site EXCEPT
           !.cleanup[dir] = SweepAfter(UnusedOf(Listing(dir), site.cleanup.usedUrls))]
    /\ reply' = NoReply
    /\ UNCHANGED store

\* One unlink of the loop: the file is deleted; unlink of a subdirectory or
\* of a file that is gone throws, and the error is collected.
CleanupUnlink(dir, url) ==
    /\ site.cleanup.phase = "sweep"
    /\ site.cleanup[dir].pc = "sweep"
    /\ url \in site.cleanup[dir].files
    /\ docs' = [path \in DOMAIN docs \ {url} |-> docs[path]]
    /\ site' = [site EXCEPT !.cleanup[dir] = SweepAfter(@.files \ {url})]
    /\ reply' = NoReply
    /\ UNCHANGED <<dirs, statusFile, pageFiles, runs>>

\* Both cleanupDirectory calls have returned: the handler answers.
CleanupRespond ==
    /\ site.cleanup.phase = "sweep"
    /\ site.cleanup.images.pc = "done"
    /\ site.cleanup.pdf.pc = "done"
    /\ site' = [site EXCEPT !.cleanup = [NoCleanup EXCEPT !.served = site.cleanup.served + 1]]
    /\ reply' = [op |-> "cleanup", code |-> 200, unused |-> {}]
    /\ UNCHANGED store

\* Authorized GET: the statistics of the unused files; nothing is deleted.
CleanupGet ==
    /\ reply' = [op |-> "cleanupStats", code |-> 200,
                 unused |-> UNION {UnusedOf(Listing(dir), site.urls) : dir \in CleanupDirs}]
    /\ UNCHANGED <<store, site>>

CleanupNext ==
    \/ \E url \in FileUrls : AddReference(url)
    \/ \E op \in {"cleanup", "cleanupStats"} : CleanupUnauthorized(op)
    \/ CleanupPost
    \/ CleanupQuery
    \/ \E dir \in CleanupDirs : CleanupReaddir(dir)
    \/ \E dir \in CleanupDirs, url \in FileUrls \cup {LocalPrefix \o <<"o">>} :
           CleanupUnlink(dir, url)
    \/ CleanupRespond
    \/ CleanupGet

\* public/ holds the two documents and an image; the database refers to any
\* of them.
CleanupInit ==
    /\ docs = [path \in FileUrls |-> IF path = ImageC THEN Corrupt ELSE Document(1)]
    /\ dirs = {}
    /\ statusFile = <<>>
    /\ pageFiles = <<>>
    /\ runs = <<>>
    /\ reply = NoReply
    /\ site \in {[urls |-> urls, cleanup |-> NoCleanup] : urls \in SUBSET FileUrls}

CleanupSpec == CleanupInit /\ [][CleanupNext]_vars

\* --------------------------------------------------- reading the behaviour
\* The step accepted a start request (for fileId).
Started == Len(runs') = Len(runs) + 1
StartedFor(fileId) == Started /\ runs'[Len(runs')].fileId = fileId

\* The step is a step of the background job r.
Stepped(r) ==
    /\ r \in 1..Len(runs)
    /\ runs[r].pc # "done"
    /\ <<runs'[r].pc, runs'[r].i>> # <<runs[r].pc, runs[r].i>>

\* A later start request for the same fileId has been accepted.
Superseded(r) ==
    \E q \in (r + 1)..Len(runs) : runs[q].fileId = runs[r].fileId

\* r is the run of the start request accepted last for its fileId.
Latest(r) == r \in 1..Len(runs) /\ ~Superseded(r)

\* The page count of the document run r was started for.
PagesOf(r) == docs[runs[r].path].pages

\* The page numbers that have an artifact in the directory of fileId.
ArtifactsOf(fileId) == {k[2] : k \in {x \in DOMAIN pageFiles : x[1] = fileId}}

\* The fields of a record a status reader follows.
Progress(record) ==
    <<record.status, record.processedPages, record.completedAt, record.error>>

Terminal(record) == record.status \in {"completed", "failed"}

\* ------------------------------------------------------------------ claims
\* C1: once a second start request for a fileId has written its initial
\* record, no write of the superseded run changes the status,
\* processedPages, completedAt or error of the record.
C1_SupersededRunChangesNothing ==
    [][\A r \in 1..Len(runs) :
          (Stepped(r) /\ Superseded(r))
              => Progress(statusFile'[runs[r].fileId])
                     = Progress(statusFile[runs[r].fileId])]_vars

\* C2: a record that holds completed or failed keeps that status until a
\* start request for its fileId is accepted, in every interleaving.
C2_TerminalUntilRestart ==
    [][\A fileId \in DOMAIN statusFile :
          (Terminal(statusFile[fileId]) /\ ~StartedFor(fileId))
              => statusFile'[fileId].status = statusFile[fileId].status]_vars

\* C3: processedPages of a fileId goes down only in a step that accepts a
\* start request for that fileId.
C3_RegressOnlyOnRestart ==
    [][\A fileId \in DOMAIN statusFile :
          statusFile'[fileId].processedPages < statusFile[fileId].processedPages
              => StartedFor(fileId)]_vars

\* C4: while one job run is alone on its fileId (no other start request
\* during the run), processedPages never goes down from the start request
\* to the terminal record, whatever pages fail.
C4_MonotoneSingleRun ==
    [][\A fileId \in DOMAIN statusFile :
          (~StartedFor(fileId) /\ \A r \in InFlight(fileId) : ~runs[r].overlapped)
              => statusFile'[fileId].processedPages
                     >= statusFile[fileId].processedPages]_vars

\* C4 witness: a run alone on its fileId has advanced the counter past a
\* page that failed.
C4_Witness ==
    \E r \in 1..Len(runs) :
        /\ ~runs[r].overlapped /\ Latest(r)
        /\ runs[r].errored # {}
        /\ statusFile[runs[r].fileId].processedPages >= 2

\* C5: whenever totalPages of a record is known (> 0), processedPages <=
\* totalPages, for single and for overlapping job runs.
C5_ProcessedWithinTotal ==
    \A fileId \in DOMAIN statusFile :
        statusFile[fileId].totalPages > 0
            => statusFile[fileId].processedPages <= statusFile[fileId].totalPages

\* C6: completedAt is present in a record if and only if its status is
\* completed.
C6_CompletedAtIffCompleted ==
    \A fileId \in DOMAIN statusFile :
        (statusFile[fileId].completedAt # Absent)
            <=> (statusFile[fileId].status = "completed")

\* C7: error is present in a record if and only if its status is failed.
C7_ErrorIffFailed ==
    \A fileId \in DOMAIN statusFile :
        (statusFile[fileId].error # Absent) <=> (statusFile[fileId].status = "failed")

C9_CompletionClosure ==
    \A r \in 1..Len(runs) :
        (runs[r].pc = "done" /\ ~runs[r].loadFailed)
            => \A p \in 1..runs[r].totalPages :
                   p \notin runs[r].errored
                       => <<runs[r].fileId, p>> \in DOMAIN pageFiles

\* C9 witness: a completed run in which one page failed and another did not.
C9_Witness ==
    \E r \in 1..Len(runs) :
        /\ runs[r].pc = "done" /\ ~runs[r].loadFailed
        /\ runs[r].errored # {}
        /\ (1..runs[r].totalPages) \ runs[r].errored # {}

\* C10: the step in which the load of a job run fails leaves the record
\* failed with a non-empty error message, changes neither processedPages
\* nor totalPages (both still 0 when the run is alone on its fileId) and
\* writes no artifact; the run never writes one.
C10_LoadFailure ==
    [][\A r \in 1..Len(runs) :
          (runs[r].pc = "load" /\ runs'[r].loadFailed)
          => LET fileId == runs[r].fileId IN
             /\ statusFile'[fileId].status = "failed"
             /\ statusFile'[fileId].error \notin {Absent, ""}
             /\ statusFile'[fileId].processedPages = statusFile[fileId].processedPages
             /\ statusFile'[fileId].totalPages = statusFile[fileId].totalPages
             /\ (~runs[r].overlapped
                    => /\ statusFile'[fileId].processedPages = 0
                       /\ statusFile'[fileId].totalPages = 0)
             /\ pageFiles' = pageFiles
             /\ runs'[r].pc = "done" /\ runs'[r].written = {}]_vars

\* C10 witness: the load of a run alone on its fileId has failed.
C10_Witness ==
    \E r \in 1..Len(runs) :
        /\ runs[r].loadFailed /\ ~runs[r].overlapped /\ Latest(r)
        /\ statusFile[runs[r].fileId].status = "failed"

C12_ResponseBeforeWork ==
    (reply.op = "trigger" /\ reply.code = 200)
        => LET fileId == FileIdOf(reply.pdfPath)
               run == runs[Len(runs)]
           IN  /\ fileId \in DOMAIN statusFile
               /\ statusFile[fileId].status = "processing"
               /\ statusFile[fileId].processedPages = 0
               /\ run.path = reply.pdfPath
               /\ run.pc = "load"
               /\ run.written = {}

C12_Witness ==
    /\ reply.op = "trigger" /\ reply.code = 200
    /\ reply.pdfPath = PathA
    /\ runs[Len(runs)].path = PathA

\* C13: a trigger request without a document path is answered 400, one whose
\* path names no file is answered 404, and either answer leaves the runs, the
\* status records, the artifact directories and the artifacts as they were.
C13_RejectedTrigger ==
    [][reply'.op = "trigger"
          => /\ (reply'.pdfPath = NoPath) => (reply'.code = 400)
             /\ (reply'.pdfPath # NoPath /\ reply'.pdfPath \notin DOMAIN docs)
                    => (reply'.code = 404)
             /\ (reply'.code \in {400, 404}) => UNCHANGED store]_vars

C13_Witness ==
    /\ reply.op = "trigger" /\ reply.code = 404
    /\ reply.pdfPath = PathC
    /\ FileIdOf(PathC) \notin dirs
    /\ Len(runs) = 1

\* A start request for fileId has been accepted.
Accepted(fileId) == \E r \in 1..Len(runs) : runs[r].fileId = fileId

\* C14: a status query answers not_found exactly when no start request for
\* the fileId has been accepted, answers the persisted record unchanged
\* otherwise, and a record that exists is never removed.
C14_NotFoundIffNeverStarted ==
    /\ [](reply.op = "status" /\ reply.fileId # NoPath
            => /\ ~reply.found <=> ~Accepted(reply.fileId)
               /\ reply.found => reply.body = <<statusFile[reply.fileId]>>)
    /\ [][\A fileId \in DOMAIN statusFile : fileId \in DOMAIN statusFile']_vars

C14_Witness ==
    /\ reply.op = "status" /\ reply.found
    /\ reply.body[1].status = "failed"
    /\ Accepted(reply.fileId)

\* The request is a range request for a loadable local document with
\* 1 <= fromPage <= toPage <= totalPages.
ValidRange(request) ==
    /\ request.kind = "range"
    /\ StartsWith(request.pdfUrl, LocalPrefix)
    /\ request.pdfUrl \in DOMAIN docs
    /\ docs[request.pdfUrl].loadable
    /\ 1 <= request.fromPage
    /\ request.fromPage <= request.toPage
    /\ request.toPage <= docs[request.pdfUrl].pages

\* C15: a range fetch with 1 <= fromPage <= toPage <= totalPages returns
\* toPage - fromPage + 1 entries whose page numbers are fromPage..toPage in
\* ascending order, whichever pages have an artifact.
C15_RangeIsExact ==
    (reply.op = "fetch" /\ ValidRange(reply.request))
        => /\ reply.code = 200
           /\ Len(reply.pages) = reply.request.toPage - reply.request.fromPage + 1
           /\ \A k \in 1..Len(reply.pages) :
                  reply.pages[k].pageNumber = reply.request.fromPage + k - 1

C15_Witness ==
    /\ reply.op = "fetch" /\ ValidRange(reply.request)
    /\ Len(reply.pages) = 2
    /\ ~reply.pages[1].isPreProcessed
    /\ reply.pages[2].isPreProcessed

\* C16: each entry of a range answer has isPreProcessed = TRUE and the URL of
\* the artifact exactly when the artifact of (fileId, page) exists at the
\* check, and isPreProcessed = FALSE with the page extracted from the
\* document inline otherwise.
C16_EntryTellsItsSource ==
    (reply.op = "fetch" /\ reply.kind = "pages")
        => \A k \in 1..Len(reply.pages) :
               LET entry == reply.pages[k]
                   at == <<FileIdOf(reply.request.pdfUrl), entry.pageNumber>>
               IN  /\ entry.isPreProcessed <=> at \in DOMAIN pageFiles
                   /\ entry.isPreProcessed
                          => entry.url = [kind |-> "artifact", at |-> at, bytes |-> NoBytes]
                   /\ ~entry.isPreProcessed
                          => /\ entry.url.kind = "data"
                             /\ entry.url.bytes
                                    = [source |-> reply.request.pdfUrl,
                                       page |-> entry.pageNumber]

\* Only page 1 is pre-split and pages 1-2 are requested.
C16_Witness ==
    /\ reply.op = "fetch" /\ reply.kind = "pages"
    /\ reply.request.fromPage = 1 /\ reply.request.toPage = 2
    /\ {page \in 1..MaxPages :
            <<FileIdOf(reply.request.pdfUrl), page>> \in DOMAIN pageFiles} = {1}
    /\ reply.pages[1].isPreProcessed
    /\ ~reply.pages[2].isPreProcessed

\* The request names a loadable local document and an invalid page or range.
InvalidPages(request) ==
    /\ StartsWith(request.pdfUrl, LocalPrefix)
    /\ request.pdfUrl \in DOMAIN docs
    /\ docs[request.pdfUrl].loadable
    /\ LET totalPages == docs[request.pdfUrl].pages IN
       \/ /\ request.kind = "page"
          /\ request.pageNumber < 1 \/ request.pageNumber > totalPages
       \/ /\ request.kind = "range"
          /\ \/ request.fromPage < 1
             \/ request.toPage > totalPages
             \/ request.fromPage > request.toPage

\* C17: a fetch of a page outside 1..totalPages, or of a range with
\* fromPage < 1, toPage > totalPages or fromPage > toPage, is answered 400
\* without any page, and changes no status record and no artifact.
C17_InvalidPagesRejected ==
    [][(reply'.op = "fetch" /\ InvalidPages(reply'.request))
          => /\ reply'.code = 400
             /\ reply'.pages = <<>>
             /\ reply'.url = NoUrl
             /\ reply'.body = NoBytes
             /\ UNCHANGED store]_vars

C17_Witness ==
    /\ reply.op = "fetch" /\ reply.code = 400
    /\ reply.request.kind = "range"
    /\ reply.request.fromPage = 2 /\ reply.request.toPage = 1
    /\ docs[reply.request.pdfUrl].pages >= 2
    /\ pageFiles # <<>>

\* C18: a fetch request without a document path is answered 400.
C18_MissingPathRejected ==
    (reply.op = "fetch" /\ reply.request.pdfUrl = NoPath) => reply.code = 400

\* C19: the content a single-page fetch designates (the artifact it refers
\* to, or the bytes it returns) is page pageNumber of the requested document.
C19_CacheTransparency ==
    (reply.op = "fetch" /\ reply.kind \in {"reference", "bytes"})
        => LET content == IF reply.kind = "reference"
                          THEN pageFiles[reply.url.at]
                          ELSE reply.body
           IN  content = [source |-> reply.request.pdfUrl,
                          page |-> reply.request.pageNumber]

\* C20: for every document path the trigger endpoint and the fetch endpoint
\* derive the same fileId.
C20_SameFileId ==
    reply.op = "derive" => reply.runner = reply.resolver

\* C21: when the extraction or the artifact write of page k fails, the run
\* goes on with page k + 1, the record is not marked failed, and after the
\* last page the run writes completed; a run that loaded its document ends
\* only after every page of 1..totalPages was tried.
C21_PageErrorDoesNotStopRun ==
    /\ [][\A r \in 1..Len(runs) :
             (Stepped(r) /\ runs[r].pc = "page" /\ runs'[r].errored # runs[r].errored)
                 => LET fileId == runs[r].fileId
                        k == runs[r].i + 1
                    IN  /\ runs'[r].errored = runs[r].errored \cup {k}
                        /\ runs'[r].i = k
                        /\ (k < runs[r].totalPages)
                               => /\ runs'[r].pc = "page"
                                  /\ statusFile'[fileId] = statusFile[fileId]
                        /\ ~(k < runs[r].totalPages)
                               => /\ runs'[r].pc = "done"
                                  /\ statusFile'[fileId].status = "completed"]_vars
    /\ [](\A r \in 1..Len(runs) :
             (runs[r].pc = "done" /\ ~runs[r].loadFailed)
                 => /\ runs[r].i = runs[r].totalPages
                    /\ runs[r].written \cup runs[r].errored = 1..runs[r].totalPages)

\* C21 witness: page 1 failed, page 2 was written, and the record is
\* completed.
C21_Witness ==
    \E r \in 1..Len(runs) :
        /\ runs[r].pc = "done"
        /\ runs[r].errored = {1}
        /\ 2 \in runs[r].written
        /\ statusFile[runs[r].fileId].status = "completed"

\* C22: when a job run alone on its fileId has written completed,
\* processedPages is the number of the last page it tried, totalPages, also
\* when pages failed.
C22_ProcessedIsLastAttempted ==
    \A r \in 1..Len(runs) :
        (/\ runs[r].pc = "done" /\ ~runs[r].loadFailed
         /\ ~runs[r].overlapped /\ Latest(r)
         /\ statusFile[runs[r].fileId].status = "completed")
        => statusFile[runs[r].fileId].processedPages = runs[r].totalPages

\* C23: a status-file write that throws during a job run neither stops the
\* run nor marks it failed: a run that loaded its document and was not cut
\* off by a process crash ends only after its last page, and the record of a
\* run alone on its fileId is not failed.
C23_WriteFailureTolerated ==
    \A r \in 1..Len(runs) :
        (runs[r].pc = "done" /\ ~runs[r].loadFailed /\ runs[r].fate # "crashed")
        => /\ runs[r].i = runs[r].totalPages
           /\ (~runs[r].overlapped /\ Latest(r))
                  => statusFile[runs[r].fileId].status # "failed"

\* C24: a fetch request or a total-pages query, whatever it answers, changes
\* no source document, no status record and no artifact; the page returned
\* by an on-demand extraction has no artifact afterwards.
C24_FetchWritesNothing ==
    [][reply'.op \in {"fetch", "total"}
          => /\ UNCHANGED store
             /\ (reply'.op = "fetch" /\ reply'.kind = "bytes")
                    => <<ResolverFileId(reply'.request.pdfUrl),
                         reply'.request.pageNumber>> \notin DOMAIN pageFiles']_vars

\* C24 witness: a page was extracted on demand while other artifacts exist.
C24_Witness ==
    /\ reply.op = "fetch" /\ reply.kind = "bytes"
    /\ pageFiles # <<>>
    /\ <<ResolverFileId(reply.request.pdfUrl), reply.request.pageNumber>>
           \notin DOMAIN pageFiles

\* A job run on the document of the request is in flight.
JobInFlightOn(request) ==
    \E r \in 1..Len(runs) : runs[r].path = request.pdfUrl /\ runs[r].pc # "done"

\* C25: a fetch request made while a job run on the same document is in
\* flight changes nothing the job reads or writes, and answers every valid
\* page at once: by reference when its artifact exists at the check, by
\* extraction otherwise.
C25_FetchDuringJob ==
    [][(reply'.op = "fetch" /\ JobInFlightOn(reply'.request))
          => LET request == reply'.request
                 fileId == FileIdOf(request.pdfUrl)
                 totalPages == docs[request.pdfUrl].pages
             IN  /\ UNCHANGED store
                 /\ ValidRange(request)
                        => /\ reply'.code = 200
                           /\ \A page \in request.fromPage..request.toPage :
                                  \E k \in 1..Len(reply'.pages) :
                                      /\ reply'.pages[k].pageNumber = page
                                      /\ reply'.pages[k].isPreProcessed
                                             <=> <<fileId, page>> \in DOMAIN pageFiles
                 /\ (request.kind = "page" /\ request.pageNumber \in 1..totalPages)
                        => /\ reply'.code = 200
                           /\ reply'.kind = IF <<fileId, request.pageNumber>>
                                                  \in DOMAIN pageFiles
                                            THEN "reference" ELSE "bytes"]_vars

\* C25 witness: while the job is between page 1 and page 2, the range 1-2 is
\* answered with page 1 by reference and page 2 extracted.
C25_Witness ==
    /\ reply.op = "fetch" /\ reply.kind = "pages"
    /\ \E r \in 1..Len(runs) :
           /\ runs[r].path = reply.request.pdfUrl
           /\ runs[r].pc = "page" /\ runs[r].i = 1
    /\ Len(reply.pages) = 2
    /\ reply.pages[1].isPreProcessed
    /\ ~reply.pages[2].isPreProcessed

\* The runs of fileId.
RunsOf(fileId) == {r \in 1..Len(runs) : runs[r].fileId = fileId}

\* C26: when two or more overlapping job runs of one n-page document have
\* all ended without a page error, the record is completed with
\* totalPages = n and processedPages = n, and page-1 .. page-n exist.
C26_OverlappingCleanRuns ==
    \A pdfPath \in DOMAIN docs :
        LET fileId == FileIdOf(pdfPath)
            n == docs[pdfPath].pages
        IN  (/\ Cardinality(RunsOf(fileId)) >= 2
             /\ \E r \in RunsOf(fileId) : runs[r].overlapped
             /\ \A r \in RunsOf(fileId) :
                    /\ runs[r].path = pdfPath
                    /\ runs[r].pc = "done" /\ ~runs[r].loadFailed
                    /\ runs[r].errored = {})
            => /\ statusFile[fileId].status = "completed"
               /\ statusFile[fileId].totalPages = n
               /\ statusFile[fileId].processedPages = n
               /\ \A p \in 1..n : <<fileId, p>> \in DOMAIN pageFiles

\* C26 witness: two overlapped runs of a document of two pages or more have
\* ended without a page error.
C26_Witness ==
    \E pdfPath \in DOMAIN docs :
        /\ docs[pdfPath].pages >= 2
        /\ Cardinality(RunsOf(FileIdOf(pdfPath))) >= 2
        /\ \A r \in RunsOf(FileIdOf(pdfPath)) :
               /\ runs[r].path = pdfPath /\ runs[r].overlapped
               /\ runs[r].pc = "done" /\ runs[r].errored = {}

\* C27: whenever a record shows processedPages = k with k >= 1, the artifact
\* of page k exists; in particular during a single job run.
C27_ArtifactBeforeProgress ==
    \A fileId \in DOMAIN statusFile :
        statusFile[fileId].processedPages >= 1
            => <<fileId, statusFile[fileId].processedPages>> \in DOMAIN pageFiles

\* C27 witness: the only run of its fileId has recorded page 1 and is about
\* to process page 2.
C27_Witness ==
    \E r \in 1..Len(runs) :
        /\ RunsOf(runs[r].fileId) = {r}
        /\ runs[r].pc = "page" /\ runs[r].i = 1
        /\ statusFile[runs[r].fileId].processedPages = 1

\* q is the run before r on the same document, it ended without an error
\* before r was started, and r is the last run of the fileId.
Rerun(q, r) ==
    /\ q \in 1..Len(runs) /\ r \in 1..Len(runs) /\ q < r
    /\ runs[q].path = runs[r].path
    /\ \A x \in (q + 1)..(r - 1) : runs[x].fileId # runs[r].fileId
    /\ Latest(r)
    /\ ~runs[q].overlapped /\ ~runs[r].overlapped
    /\ runs[q].pc = "done" /\ ~runs[q].loadFailed /\ runs[q].errored = {}

\* C28: a rerun of a document whose previous run ended without an error:
\* while it runs, the record is processing without completedAt or error and
\* every artifact of the first run is in place; when it ends without an
\* error, status, totalPages, processedPages and the artifacts are those the
\* first run left.
C28_RestartIdempotent ==
    \A q \in 1..Len(runs), r \in 1..Len(runs) :
        Rerun(q, r)
        => LET fileId == runs[r].fileId
               n == PagesOf(r)
               record == statusFile[fileId]
           IN  /\ \A p \in 1..n :
                      /\ <<fileId, p>> \in DOMAIN pageFiles
                      /\ pageFiles[<<fileId, p>>] = PageBytes(runs[r].path, p - 1)
               /\ runs[r].pc # "done"
                      => /\ record.status = "processing"
                         /\ record.completedAt = Absent
                         /\ record.error = Absent
               /\ (runs[r].pc = "done" /\ runs[r].errored = {})
                      => /\ record.status = "completed"
                         /\ record.totalPages = n
                         /\ record.processedPages = n
                         /\ runs[r].written = runs[q].written

\* C28 witness: the rerun of a document of two pages or more is in its page
\* loop.
C28_Witness ==
    \E q \in 1..Len(runs), r \in 1..Len(runs) :
        /\ Rerun(q, r)
        /\ PagesOf(r) >= 2
        /\ runs[r].pc = "page" /\ runs[r].i = 1

CutOff(fileId) ==
    \E r \in RunsOf(fileId) : runs[r].fate \in {"crashed", "lost"}

C30_DeletesOnlyUnreferenced ==
    [][/\ \A url \in DOMAIN docs \ DOMAIN docs' : url \notin site.urls
       /\ (reply'.op = "cleanupStats" \/ (reply'.op = "cleanup" /\ reply'.code = 401))
              => DOMAIN docs' = DOMAIN docs]_vars

====
